---- MODULE Spec2Model ----
(***************************************************************************)
(* The Nuru chat widget (multi-tool context version): the module state of  *)
(* one page view, the persisted session entry, the message container, the  *)
(* startup handler with its three sequential session probes, and the chat  *)
(* request cycle of sendNuruMessage.                                       *)
(*                                                                         *)
(* JavaScript runs to completion between awaits: every action below is one *)
(* task (an event handler up to its first await, or the continuation of an *)
(* await up to the next one).  Text is a sequence of characters; an object *)
(* is a record whose DOMAIN is the set of its fields.                      *)
(***************************************************************************)
EXTENDS Integers, Sequences, FiniteSets, TLC

VARIABLES
    locationHash,           \* window.location.hash, split on '?'
    localStorage,           \* the 'nuru_session_id' entry of local storage
    sessionId,              \* let sessionId
    isWaitingForResponse,   \* let isWaitingForResponse
    auditContext,           \* let auditContext
    nuruInput,              \* value of the #nuruInput field
    chatMessages,           \* children of the #chatMessages container
    loadPc,                 \* position of the DOMContentLoaded handler
    probes,                 \* GET /api/session/{id} calls of this page view
    posts,                  \* POST /api/chat calls of this page view
    calls,                  \* position of each sendNuruMessage invocation
    returned,               \* every value getSessionId has returned
    reloads,                \* page loads after the first one
    lastTask                \* whether the task that ran last called sendNuruMessage

vars == <<locationHash, localStorage, sessionId, isWaitingForResponse,
          auditContext, nuruInput, chatMessages, loadPc, probes, posts,
          calls, returned, reloads, lastTask>>

----------------------------------------------------------------------------
(* Bounds of the model *)

\* chat requests issued in one page view
MaxRequests == 2
\* page reloads
MaxReloads == 1

----------------------------------------------------------------------------
(* Values *)

\* null in a string-valued slot (sessionId, storage entry, URL parameter)
null == "null"
\* null in an object-valued slot (auditContext, a probe's body)
nullObject == [isNull |-> TRUE]

BACKEND_URL == "BACKEND_URL"
TOOL3_API == "TOOL3_API"
TOOL4_API == "TOOL4_API"
TOOL5_API == "TOOL5_API"

\* the identifiers 'session_' + Date.now() + '_' + random can produce
SessionIds == {"session_1", "session_2"}

\* the fragments a page view is opened with: each '?'-separated segment is a
\* list of key/value pairs as URLSearchParams reads it
Route == << <<"#/nuru", "">> >>
Hashes ==
    { <<Route>>,                                          \* #/nuru
      <<Route, << <<"ref", "ad">> >> >>,                  \* #/nuru?ref=ad
      <<Route, << <<"session", "">> >> >>,                \* #/nuru?session=
      <<Route, << <<"ref", "ad">>, <<"session", "abc">> >> >>,
                                                          \* #/nuru?ref=ad&session=abc
      <<Route, << <<"ref", "ad">> >>, << <<"session", "abc">> >> >> }
                                                          \* #/nuru?ref=ad?session=abc

\* what the user may have in the input field
InputValues ==
    { <<>>, <<" ">>, <<" ", "o", "k", " ">> }

\* hand-off records the session endpoints serve
RoiContext ==
    [process_name |-> "Invoicing", annual_savings |-> 120000,
     roi_percentage |-> 250, breakeven_months |-> 5, risk_level |-> "Low"]
ReadinessContext ==
    [overall_score |-> 80, readiness_level |-> "Advanced"]
AuditContext ==
    [company_name |-> "Acme", waste_score |-> 62, total_hours_wasted |-> 120,
     top_waste_zones |-> <<[name |-> "Email"]>>]
OtherObject == [status |-> "found"]
Contexts == {RoiContext, ReadinessContext, AuditContext, OtherObject}

\* bodies the chat endpoint may answer with (parsed JSON): objects, and the
\* JSON value null
ChatBodies ==
    { nullObject,
      [response |-> <<"Hello">>],
      [error |-> <<"boom">>],
      [response |-> <<"Hello">>, error |-> <<"boom">>],
      [response |-> <<>>, error |-> <<"boom">>],
      [response |-> <<>>],
      [error |-> <<>>],
      [status |-> <<"ok">>] }

\* a body response.json() rejects on
Unparseable == [unparseable |-> TRUE]

ErrorApology == <<"Sorry, I encountered an error. Please try again.">>
ConnectApology == <<"Sorry, I'm having trouble connecting. Please try again.">>
FallbackGreeting == <<"Hi! I'm Nuru. What brings you here today?">>

----------------------------------------------------------------------------
(* Pure helpers *)

\* JavaScript truthiness of a field of an object: present and not ''
Truthy(obj, field) == field \in DOMAIN obj /\ obj[field] # <<>>

IsSpace(c) == c = " "

\* String.prototype.trim
RECURSIVE TrimStart(_)
TrimStart(s) ==
    IF s # <<>> /\ IsSpace(Head(s)) THEN TrimStart(Tail(s)) ELSE s
RECURSIVE TrimEnd(_)
TrimEnd(s) ==
    IF s # <<>> /\ IsSpace(s[Len(s)])
    THEN TrimEnd(SubSeq(s, 1, Len(s) - 1))
    ELSE s
\* fault variant: the input is used as typed
Trim_AsTyped(s) == s
Trim(s) == TrimEnd(TrimStart(s))

\* URLSearchParams.get: the value of the first pair with that key, or null
RECURSIVE UrlGet(_, _)
UrlGet(params, key) ==
    IF params = <<>> THEN null
    ELSE IF Head(params)[1] = key THEN Head(params)[2]
    ELSE UrlGet(Tail(params), key)

\* window.location.hash.split('?')[1], then new URLSearchParams(hashParams || '')
HashParams(hash) == IF Len(hash) >= 2 THEN hash[2] ELSE <<>>

\* urlParams.get('session')
AuditSessionId(hash) == UrlGet(HashParams(hash), "session")

\* fault variant: the early return on a missing session parameter is gone
NoAuditSession_Never(hash) == FALSE

\* !auditSessionId
NoAuditSession(hash) == AuditSessionId(hash) \in {null, ""}

----------------------------------------------------------------------------
(* Session identity *)

\* a string is truthy unless it is null or ''
TruthyString(s) == s \notin {null, ""}

\* fault variant: a fresh page view does not read the storage entry
GetSessionId_IgnoresStorage(cache, store, fresh) ==
    IF TruthyString(cache)
    THEN [value |-> cache, cache |-> cache, store |-> store]
    ELSE [value |-> fresh, cache |-> fresh, store |-> fresh]

\* fault variant: a generated identifier is cached but not stored
GetSessionId_NotStored(cache, store, fresh) ==
    IF TruthyString(cache)
    THEN [value |-> cache, cache |-> cache, store |-> store]
    ELSE IF TruthyString(store)
         THEN [value |-> store, cache |-> store, store |-> store]
         ELSE [value |-> fresh, cache |-> fresh, store |-> store]

\* getSessionId with the cache and the storage entry it reads, and the
\* identifier it would generate: the value returned, and what it leaves in
\* the cache and in storage
GetSessionId(cache, store, fresh) ==
    IF TruthyString(cache)
    THEN [value |-> cache, cache |-> cache, store |-> store]
    ELSE IF TruthyString(store)
         THEN [value |-> store, cache |-> store, store |-> store]
         ELSE [value |-> fresh, cache |-> fresh, store |-> fresh]

\* a call of getSessionId() in the current state
CallGetSessionId(fresh) ==
    LET r == GetSessionId(sessionId, localStorage, fresh)
    IN  /\ sessionId' = r.cache
        /\ localStorage' = r.store
        /\ returned' = returned \cup {r.value}

----------------------------------------------------------------------------
(* Presentation surface *)

UserMessage(content) ==
    [className |-> "widget-message user", id |-> "", content |-> content]
AiMessage(content) ==
    [className |-> "widget-message ai", id |-> "", content |-> content]
TypingElement ==
    [className |-> "widget-message ai", id |-> "typingIndicator",
     content |-> <<>>]

\* addMessage(content, isUser): one more child of the container
addMessage(dom, content, isUser) ==
    Append(dom, IF isUser THEN UserMessage(content) ELSE AiMessage(content))

\* showTyping()
showTyping(dom) == Append(dom, TypingElement)

\* hideTyping(): getElementById finds the first element with the id, and
\* remove() takes it out
RECURSIVE hideTyping(_)
hideTyping(dom) ==
    IF dom = <<>> THEN <<>>
    ELSE IF Head(dom).id = "typingIndicator" THEN Tail(dom)
    ELSE <<Head(dom)>> \o hideTyping(Tail(dom))

\* the children of the container that are messages
RECURSIVE MessagesOf(_)
MessagesOf(dom) ==
    IF dom = <<>> THEN <<>>
    ELSE IF Head(dom).id = "typingIndicator" THEN MessagesOf(Tail(dom))
    ELSE <<Head(dom)>> \o MessagesOf(Tail(dom))

TypingCount(dom) ==
    Cardinality({i \in 1..Len(dom) : dom[i].id = "typingIndicator"})

----------------------------------------------------------------------------
(* Greeting *)

\* Math.floor(Math.random() * 50) + 50 ranges over 50..99
PatternCounts == {50, 99}

\* fault variant: the readiness branch is tested before the ROI branch
generateGreeting_ReadinessFirst(context, patternCount) ==
    IF context = nullObject THEN FallbackGreeting
    ELSE IF "overall_score" \in DOMAIN context THEN
        <<"I see you scored ", ToString(context.overall_score),
          "/100 on AI readiness (", context.readiness_level, ")">>
        \o (IF context.overall_score >= 75
            THEN <<"You're in great shape! Let's talk about which automation to build first.">>
            ELSE IF context.overall_score >= 60
            THEN <<"You have solid foundations. Want to address the gaps before we start building?">>
            ELSE <<"Let's work on strengthening your foundations. I can show you the fastest path forward.">>)
    ELSE IF "annual_savings" \in DOMAIN context THEN
        <<"I see you just calculated ROI for ", context.process_name,
          "Your projection shows ", "$", ToString(context.annual_savings),
          ToString(context.roi_percentage), "% ROI",
          ToString(context.breakeven_months), " months">>
        \o (IF context.risk_level = "Low"
            THEN <<"This looks like a strong automation candidate. Want to explore implementation options?">>
            ELSE IF context.risk_level = "Medium"
            THEN <<"There are some considerations to address. Let's discuss how to de-risk this project.">>
            ELSE <<"I notice some challenges with this automation. Let's find a better starting point for your AI journey.">>)
    ELSE IF "waste_score" \in DOMAIN context THEN
        LET zones == context.top_waste_zones
            topZone == IF zones # <<>> THEN zones[1].name ELSE "operations"
        IN  <<"I see you just completed an intelligence audit for ",
              context.company_name,
              "Your waste score is ", ToString(context.waste_score), "/100",
              ToString(context.total_hours_wasted), " hours lost monthly",
              "Top waste zone: ", topZone,
              "I've analyzed ", ToString(patternCount),
              " similar businesses. Want to see what worked for them?">>
    ELSE FallbackGreeting

generateGreeting(context, patternCount) ==
    IF context = nullObject THEN FallbackGreeting
    ELSE IF "annual_savings" \in DOMAIN context THEN
        <<"I see you just calculated ROI for ", context.process_name,
          "Your projection shows ", "$", ToString(context.annual_savings),
          ToString(context.roi_percentage), "% ROI",
          ToString(context.breakeven_months), " months">>
        \o (IF context.risk_level = "Low"
            THEN <<"This looks like a strong automation candidate. Want to explore implementation options?">>
            ELSE IF context.risk_level = "Medium"
            THEN <<"There are some considerations to address. Let's discuss how to de-risk this project.">>
            ELSE <<"I notice some challenges with this automation. Let's find a better starting point for your AI journey.">>)
    ELSE IF "overall_score" \in DOMAIN context THEN
        <<"I see you scored ", ToString(context.overall_score),
          "/100 on AI readiness (", context.readiness_level, ")">>
        \o (IF context.overall_score >= 75
            THEN <<"You're in great shape! Let's talk about which automation to build first.">>
            ELSE IF context.overall_score >= 60
            THEN <<"You have solid foundations. Want to address the gaps before we start building?">>
            ELSE <<"Let's work on strengthening your foundations. I can show you the fastest path forward.">>)
    ELSE IF "waste_score" \in DOMAIN context THEN
        LET zones == context.top_waste_zones
            topZone == IF zones # <<>> THEN zones[1].name ELSE "operations"
        IN  <<"I see you just completed an intelligence audit for ",
              context.company_name,
              "Your waste score is ", ToString(context.waste_score), "/100",
              ToString(context.total_hours_wasted), " hours lost monthly",
              "Top waste zone: ", topZone,
              "I've analyzed ", ToString(patternCount),
              " similar businesses. Want to see what worked for them?">>
    ELSE FallbackGreeting

----------------------------------------------------------------------------
(* Initial state: the page has been fetched and the script evaluated *)

Init ==
    /\ locationHash \in Hashes
    /\ localStorage \in {null, "session_1"}       \* first visit, or a later one
    /\ sessionId = null
    /\ isWaitingForResponse = FALSE
    /\ auditContext = nullObject
    /\ nuruInput = <<>>
    /\ chatMessages = <<>>
    /\ loadPc = "notStarted"
    /\ probes = <<>>
    /\ posts = <<>>
    /\ calls = <<>>
    /\ returned = {}
    /\ reloads = 0
    /\ lastTask = "other"

----------------------------------------------------------------------------
(* Startup: the DOMContentLoaded handler and loadAuditContext *)

\* the order in which loadAuditContext tries the tools
ProbeOrder == <<TOOL5_API, TOOL4_API, TOOL3_API>>

\* fetch(`${TOOL}/api/session/${auditSessionId}`) is issued
NewProbe(i) ==
    [tool |-> ProbeOrder[i], id |-> AuditSessionId(locationHash)]

\* fault variant: a rejected fetch is not caught
AfterFetch_Uncaught(status) ==
    IF status = "ok" THEN "json"
    ELSE IF status = "failed" THEN "throw" ELSE "next"

\* where one try block goes once its fetch has settled: a rejected fetch is
\* caught, a response that is not ok falls out of the if
AfterFetch(status) == IF status = "ok" THEN "json" ELSE "next"

\* fault variant: a parsed body does not end the search
AfterJson_KeepProbing(body) == "next"

\* where one try block goes once response.json() has settled: a rejection is
\* caught, a parsed body is returned
AfterJson(body) == IF body = Unparseable THEN "next" ELSE "return"

\* the rest of the DOMContentLoaded handler once loadAuditContext has
\* resolved to context
Ready(context, patternCount) ==
    /\ auditContext' = context
    /\ chatMessages' =
           addMessage(<<>>, generateGreeting(context, patternCount), FALSE)
    /\ loadPc' = "done"

\* loadAuditContext after a step of the try block of the latest probe
Continue(where, context, patternCount) ==
    CASE where = "json" ->
            /\ loadPc' = "json"
            /\ UNCHANGED probes
            /\ UNCHANGED <<auditContext, chatMessages>>
      [] where = "return" ->
            /\ Ready(context, patternCount)
            /\ UNCHANGED probes
      [] where = "next" /\ Len(probes) < Len(ProbeOrder) ->
            /\ probes' = Append(probes, NewProbe(Len(probes) + 1))
            /\ loadPc' = "fetch"
            /\ UNCHANGED <<auditContext, chatMessages>>
      [] where = "next" /\ Len(probes) >= Len(ProbeOrder) ->
            /\ Ready(nullObject, patternCount)
            /\ UNCHANGED probes
      [] OTHER ->                       \* an exception leaves the handler
            /\ loadPc' = "threw"
            /\ UNCHANGED <<probes, auditContext, chatMessages>>

\* the page's DOMContentLoaded event
DOMContentLoaded(fresh, patternCount) ==
    /\ loadPc = "notStarted"
    /\ CallGetSessionId(fresh)
    /\ IF NoAuditSession(locationHash)
       THEN /\ Ready(nullObject, patternCount)
            /\ UNCHANGED probes
       ELSE /\ probes' = <<NewProbe(1)>>
            /\ loadPc' = "fetch"
            /\ UNCHANGED <<auditContext, chatMessages>>
    /\ lastTask' = "other"
    /\ UNCHANGED <<locationHash, isWaitingForResponse, nuruInput, posts,
                   calls, reloads>>

\* the fetch of the current probe settles: it rejects ("failed") or
\* resolves with a response whose ok is false ("notOk") or true ("ok")
ProbeFetchSettle(status, patternCount) ==
    /\ loadPc = "fetch"
    /\ Continue(AfterFetch(status), nullObject, patternCount)
    /\ lastTask' = "other"
    /\ UNCHANGED <<locationHash, localStorage, sessionId,
                   isWaitingForResponse, nuruInput, posts, calls, returned,
                   reloads>>

\* response.json() of the current probe settles
ProbeJsonSettle(body, patternCount) ==
    /\ loadPc = "json"
    /\ Continue(AfterJson(body), body, patternCount)
    /\ lastTask' = "other"
    /\ UNCHANGED <<locationHash, localStorage, sessionId,
                   isWaitingForResponse, nuruInput, posts, calls, returned,
                   reloads>>

----------------------------------------------------------------------------
(* Chat transport: sendNuruMessage *)

\* fault variant: no re-entry guard
NeverBlocked == FALSE

\* if (isWaitingForResponse) return;
Blocked == isWaitingForResponse

\* fault variant: the context is never attached
RequestBody_NoContext(message, sid, context) ==
    [message |-> message, session_id |-> sid]

\* the JSON body of the POST: audit_context only when auditContext is truthy
\* (every object is)
RequestBody(message, sid, context) ==
    IF context # nullObject
    THEN [message |-> message, session_id |-> sid, audit_context |-> context]
    ELSE [message |-> message, session_id |-> sid]

\* sendNuruMessage() up to its await fetch(...)
sendNuruMessage(fresh) ==
    LET message == Trim(nuruInput)
        r == GetSessionId(sessionId, localStorage, fresh)
    IN  IF Blocked \/ message = <<>>
        THEN UNCHANGED <<localStorage, sessionId, isWaitingForResponse,
                         nuruInput, chatMessages, posts, calls, returned>>
        ELSE /\ Len(posts) < MaxRequests
             /\ chatMessages' =
                    showTyping(addMessage(chatMessages, message, TRUE))
             /\ nuruInput' = <<>>
             /\ isWaitingForResponse' = TRUE
             /\ CallGetSessionId(fresh)
             /\ posts' = Append(posts,
                    [url |-> BACKEND_URL,
                     body |-> RequestBody(message, r.value, auditContext)])
             /\ calls' = Append(calls, "fetch")

\* fault variant: the backend's error value is shown to the user
OnData_RawError(dom, data) ==
    LET shown == hideTyping(dom)
    IN  IF Truthy(data, "response")
        THEN addMessage(shown, data.response, FALSE)
        ELSE IF Truthy(data, "error")
        THEN addMessage(shown, data.error, FALSE)
        ELSE shown

\* the try block once data has been read
OnData(dom, data) ==
    LET shown == hideTyping(dom)
    IN  IF Truthy(data, "response")
        THEN addMessage(shown, data.response, FALSE)
        ELSE IF Truthy(data, "error")
        THEN addMessage(shown, ErrorApology, FALSE)
        ELSE shown

\* fault variant: the catch block says nothing to the user
OnError_Silent(dom) == hideTyping(dom)

\* fault variant: the catch block leaves the typing indicator in place
OnError_KeepsTyping(dom) == addMessage(dom, ConnectApology, FALSE)

\* the catch block
OnError(dom) == addMessage(hideTyping(dom), ConnectApology, FALSE)

\* fault variant: reading a field of null yields undefined
ReadThrows_Never(data) == FALSE

\* data.response on a body that parsed to null is a TypeError: the try block
\* is left for the catch block after hideTyping() has run
ReadThrows(data) == data = nullObject

\* fault variant: no finally block, the flag is reset on the try path only
Settle_NoFinally(i, dom) ==
    /\ chatMessages' = dom
    /\ isWaitingForResponse' =
           (dom # <<>> /\ dom[Len(dom)] = AiMessage(ConnectApology))
    /\ calls' = [calls EXCEPT ![i] = "done"]

\* invocation i leaves sendNuruMessage through its finally block, with the
\* container as the try or the catch block left it
Settle(i, dom) ==
    /\ chatMessages' = dom
    /\ isWaitingForResponse' = FALSE
    /\ calls' = [calls EXCEPT ![i] = "done"]

\* User events are taken from the moment the document is loaded: the
\* elements they come from belong to the parsed page.

\* the user edits the input field
Input(value) ==
    /\ loadPc # "notStarted"
    /\ nuruInput' = value
    /\ lastTask' = "other"
    /\ UNCHANGED <<locationHash, localStorage, sessionId,
                   isWaitingForResponse, auditContext, chatMessages, loadPc,
                   probes, posts, calls, returned, reloads>>

\* the send button
Click(fresh) ==
    /\ loadPc # "notStarted"
    /\ sendNuruMessage(fresh)
    /\ lastTask' = "sendNuruMessage"
    /\ UNCHANGED <<locationHash, auditContext, loadPc, probes, reloads>>

\* handleNuruKeyPress(event)
handleNuruKeyPress(key, shiftKey, fresh) ==
    /\ loadPc # "notStarted"
    /\ IF key = "Enter" /\ ~shiftKey
       THEN sendNuruMessage(fresh)
       ELSE UNCHANGED <<localStorage, sessionId, isWaitingForResponse,
                        nuruInput, chatMessages, posts, calls, returned>>
    /\ lastTask' = IF key = "Enter" /\ ~shiftKey
                   THEN "sendNuruMessage" ELSE "other"
    /\ UNCHANGED <<locationHash, auditContext, loadPc, probes, reloads>>

\* the fetch of invocation i settles: it rejects, or resolves with a response
\* (of any status: the code does not read it)
ChatFetchSettle(i, outcome) ==
    /\ i \in DOMAIN calls
    /\ calls[i] = "fetch"
    /\ IF outcome = "rejected"
       THEN Settle(i, OnError(chatMessages))
       ELSE /\ calls' = [calls EXCEPT ![i] = "json"]
            /\ UNCHANGED <<chatMessages, isWaitingForResponse>>
    /\ lastTask' = "other"
    /\ UNCHANGED <<locationHash, localStorage, sessionId, auditContext,
                   nuruInput, loadPc, probes, posts, returned, reloads>>

\* response.json() of invocation i settles: it rejects on a body that is no
\* JSON, or resolves with the parsed body
ChatJsonSettle(i, body) ==
    /\ i \in DOMAIN calls
    /\ calls[i] = "json"
    /\ IF body = Unparseable
       THEN Settle(i, OnError(chatMessages))
       ELSE IF ReadThrows(body)
       THEN Settle(i, OnError(hideTyping(chatMessages)))
       ELSE Settle(i, OnData(chatMessages, body))
    /\ lastTask' = "other"
    /\ UNCHANGED <<locationHash, localStorage, sessionId, auditContext,
                   nuruInput, loadPc, probes, posts, returned, reloads>>

----------------------------------------------------------------------------
(* A reload: a new page view over the same local storage *)

Reload(hash) ==
    /\ reloads < MaxReloads
    /\ reloads' = reloads + 1
    /\ locationHash' = hash
    /\ sessionId' = null
    /\ isWaitingForResponse' = FALSE
    /\ auditContext' = nullObject
    /\ nuruInput' = <<>>
    /\ chatMessages' = <<>>
    /\ loadPc' = "notStarted"
    /\ probes' = <<>>
    /\ posts' = <<>>
    /\ calls' = <<>>
    /\ lastTask' = "other"
    /\ UNCHANGED <<localStorage, returned>>

----------------------------------------------------------------------------
(* Specifications *)

Next ==
    \/ \E fresh \in SessionIds, n \in PatternCounts :
           DOMContentLoaded(fresh, n)
    \/ \E status \in {"failed", "notOk", "ok"}, n \in PatternCounts :
           ProbeFetchSettle(status, n)
    \/ \E body \in Contexts \cup {Unparseable}, n \in PatternCounts :
           ProbeJsonSettle(body, n)
    \/ \E value \in InputValues : Input(value)
    \/ \E fresh \in SessionIds : Click(fresh)
    \/ \E key \in {"Enter", "a"}, shiftKey \in BOOLEAN, fresh \in SessionIds :
           handleNuruKeyPress(key, shiftKey, fresh)
    \/ \E i \in DOMAIN calls, outcome \in {"rejected", "resolved"} :
           ChatFetchSettle(i, outcome)
    \/ \E i \in DOMAIN calls, body \in ChatBodies \cup {Unparseable} :
           ChatJsonSettle(i, body)

\* one page view
Spec == Init /\ [][Next]_vars

\* every network call settles and the browser dispatches DOMContentLoaded
Fairness ==
    /\ WF_vars(\E fresh \in SessionIds, n \in PatternCounts :
                   DOMContentLoaded(fresh, n))
    /\ WF_vars(\E status \in {"failed", "notOk", "ok"}, n \in PatternCounts :
                   ProbeFetchSettle(status, n))
    /\ WF_vars(\E body \in Contexts \cup {Unparseable}, n \in PatternCounts :
                   ProbeJsonSettle(body, n))
    /\ WF_vars(\E i \in DOMAIN calls, outcome \in {"rejected", "resolved"} :
                   ChatFetchSettle(i, outcome))
    /\ WF_vars(\E i \in DOMAIN calls, body \in ChatBodies \cup {Unparseable} :
                   ChatJsonSettle(i, body))
FairSpec == Spec /\ Fairness

\* page views over one local storage
NextReload == Next \/ \E hash \in Hashes : Reload(hash)
ReloadSpec == Init /\ [][NextReload]_vars

----------------------------------------------------------------------------
(* parseMarkdown. A text is a sequence of characters; the markup is a sequence
   of tokens: the characters that are left, and one token for each entity
   and each tag the renderer writes. No later pattern matches inside an
   entity or a tag: none of them holds a '*', a newline, or a line start. *)

NL == "\n"
AmpEntity == "&amp;"
LtEntity == "&lt;"
GtEntity == "&gt;"
H4Open == "<h4 class=\"nuru-h4\">"
H4Close == "</h4>"
H3Open == "<h3 class=\"nuru-h3\">"
H3Close == "</h3>"
StrongOpen == "<strong>"
StrongClose == "</strong>"
EmOpen == "<em>"
EmClose == "</em>"
LiOpen == "<li>"
LiClose == "</li>"
UlOpen == "<ul class=\"nuru-list\">"
UlClose == "</ul>"
HrTag == "<hr class=\"nuru-divider\">"
ParagraphBreak == "</p><p class=\"nuru-p\">"
BrTag == "<br>"
POpen == "<p class=\"nuru-p\">"
PClose == "</p>"

Digits == {"0", "1", "2", "3", "4", "5", "6", "7", "8", "9"}

\* the first characters of a token, as startsWith reads them
Lead(token) ==
    CASE token \in {H4Open, H3Open, HrTag} -> <<"<", "h">>
      [] token = UlOpen -> <<"<", "u", "l">>
      [] token = LiOpen -> <<"<", "l", "i">>
      [] token = StrongOpen -> <<"<", "s", "t">>
      [] token = EmOpen -> <<"<", "e", "m">>
      [] token = BrTag -> <<"<", "b", "r">>
      [] token = POpen -> <<"<", "p", " ">>
      [] token \in {H4Close, H3Close, StrongClose, EmClose, LiClose, UlClose,
                    ParagraphBreak, PClose} -> <<"<", "/">>
      [] token = AmpEntity -> <<"&", "a", "m">>
      [] token = LtEntity -> <<"&", "l", "t">>
      [] token = GtEntity -> <<"&", "g", "t">>
      [] OTHER -> <<token>>

\* String.prototype.startsWith for a prefix of up to three characters
StartsWith(html, prefix) ==
    LET lead == [k \in 1..3 |-> IF k <= Len(html) THEN Lead(html[k]) ELSE <<>>]
        chars == lead[1] \o lead[2] \o lead[3]
    IN  /\ Len(chars) >= Len(prefix)
        /\ SubSeq(chars, 1, Len(prefix)) = prefix

\* replace(/c/g, token) for a single character c
ReplaceChar(s, c, token) ==
    [k \in DOMAIN s |-> IF s[k] = c THEN token ELSE s[k]]

\* fault variant: the text goes into the markup as it is
Escape_None(text) == text

\* the three replace calls of the escaping step
Escape(text) ==
    ReplaceChar(ReplaceChar(ReplaceChar(text, "&", AmpEntity),
                            "<", LtEntity),
                ">", GtEntity)

\* the lines ^ and $ delimit under the m flag
RECURSIVE SplitLines(_)
SplitLines(s) ==
    IF \A k \in DOMAIN s : s[k] # NL THEN <<s>>
    ELSE LET k == CHOOSE k \in DOMAIN s :
                      s[k] = NL /\ \A j \in 1..(k - 1) : s[j] # NL
         IN  <<SubSeq(s, 1, k - 1)>> \o SplitLines(SubSeq(s, k + 1, Len(s)))

RECURSIVE JoinLines(_)
JoinLines(lines) ==
    IF Len(lines) = 1 THEN lines[1]
    ELSE lines[1] \o <<NL>> \o JoinLines(Tail(lines))

HasPrefix(s, prefix) ==
    Len(s) >= Len(prefix) /\ SubSeq(s, 1, Len(prefix)) = prefix

\* ^marks(.+)$ to open $1 close
Enclose(line, marks, open, close) ==
    IF HasPrefix(line, marks) /\ Len(line) > Len(marks)
    THEN <<open>> \o SubSeq(line, Len(marks) + 1, Len(line)) \o <<close>>
    ELSE line

H4Line(line) == Enclose(line, <<"#", "#", "#", " ">>, H4Open, H4Close)
H3Line(line) == Enclose(line, <<"#", "#", " ">>, H3Open, H3Close)

Min(S) == CHOOSE n \in S : \A m \in S : n <= m
Max(S) == CHOOSE n \in S : \A m \in S : n >= m

\* /\*\*(.+?)\*\*/g: from the leftmost "**", the nearest "**" after at least
\* one character, none of them a newline
RECURSIVE Bold(_)
Bold(s) ==
    LET closes == {j \in 4..(Len(s) - 1) :
                      /\ s[j] = "*" /\ s[j + 1] = "*"
                      /\ \A k \in 3..(j - 1) : s[k] # NL}
    IN  IF s = <<>> THEN <<>>
        ELSE IF HasPrefix(s, <<"*", "*">>) /\ closes # {}
        THEN LET j == Min(closes)
             IN  <<StrongOpen>> \o SubSeq(s, 3, j - 1) \o <<StrongClose>>
                 \o Bold(SubSeq(s, j + 2, Len(s)))
        ELSE <<Head(s)>> \o Bold(Tail(s))

\* (?<!\*)\*(?!\*): a '*' with no '*' before it and none after it
LoneStar(s, k) ==
    /\ k \in DOMAIN s /\ s[k] = "*"
    /\ ~(k - 1 \in DOMAIN s /\ s[k - 1] = "*")
    /\ ~(k + 1 \in DOMAIN s /\ s[k + 1] = "*")

\* the italic replace from position i on; the lookbehinds read the string
\* the replace was called on
RECURSIVE Italic(_, _)
Italic(s, i) ==
    LET closes == {j \in (i + 2)..Len(s) :
                      /\ LoneStar(s, j)
                      /\ \A k \in (i + 1)..(j - 1) : s[k] # NL}
    IN  IF i > Len(s) THEN <<>>
        ELSE IF LoneStar(s, i) /\ closes # {}
        THEN LET j == Min(closes)
             IN  <<EmOpen>> \o SubSeq(s, i + 1, j - 1) \o <<EmClose>>
                 \o Italic(s, j + 1)
        ELSE <<s[i]>> \o Italic(s, i + 1)

\* the character U+2022 (bullet), written by its code point
BulletChar == "U+2022"

\* ^[-U+2022] (.+)$
BulletLine(line) ==
    IF Len(line) >= 3 /\ line[1] \in {"-", BulletChar} /\ line[2] = " "
    THEN <<LiOpen>> \o SubSeq(line, 3, Len(line)) \o <<LiClose>>
    ELSE line

\* <li>.*<\/li> from an <li> at i: the last </li> of the line, or 0
LastClose(s, i) ==
    LET closes == {e \in (i + 1)..Len(s) :
                      s[e] = LiClose /\ \A k \in i..e : s[k] # NL}
    IN  IF s[i] = LiOpen /\ closes # {} THEN Max(closes) ELSE 0

\* where (<li>.*<\/li>\n?)+ ends when it matches from i
RECURSIVE ItemsEnd(_, _)
ItemsEnd(s, i) ==
    LET e == LastClose(s, i)
        n == IF e + 1 <= Len(s) /\ s[e + 1] = NL THEN e + 1 ELSE e
    IN  IF n + 1 <= Len(s) /\ LastClose(s, n + 1) # 0
        THEN ItemsEnd(s, n + 1)
        ELSE n

RECURSIVE WrapLists(_)
WrapLists(s) ==
    IF s = <<>> THEN <<>>
    ELSE IF LastClose(s, 1) # 0
    THEN LET m == ItemsEnd(s, 1)
         IN  <<UlOpen>> \o SubSeq(s, 1, m) \o <<UlClose>>
             \o WrapLists(SubSeq(s, m + 1, Len(s)))
    ELSE <<Head(s)>> \o WrapLists(Tail(s))

\* ^\d+\. (.+)$
NumberedLine(line) ==
    LET d == Max({n \in 0..Len(line) : \A k \in 1..n : line[k] \in Digits})
    IN  IF /\ d >= 1 /\ Len(line) >= d + 3
           /\ line[d + 1] = "." /\ line[d + 2] = " "
        THEN <<LiOpen>> \o SubSeq(line, d + 3, Len(line)) \o <<LiClose>>
        ELSE line

\* ^---+$
HrLine(line) ==
    IF Len(line) >= 3 /\ \A k \in DOMAIN line : line[k] = "-"
    THEN <<HrTag>>
    ELSE line

\* replace(/\n\n/g, ...)
RECURSIVE ParagraphBreaks(_)
ParagraphBreaks(s) ==
    IF s = <<>> THEN <<>>
    ELSE IF HasPrefix(s, <<NL, NL>>)
    THEN <<ParagraphBreak>> \o ParagraphBreaks(SubSeq(s, 3, Len(s)))
    ELSE <<Head(s)>> \o ParagraphBreaks(Tail(s))

\* the replacement of one line under the pattern of a rule
OnLine(rule, line) ==
    CASE rule = "h4" -> H4Line(line)
      [] rule = "h3" -> H3Line(line)
      [] rule = "bullet" -> BulletLine(line)
      [] rule = "numbered" -> NumberedLine(line)
      [] rule = "hr" -> HrLine(line)

\* a replace whose pattern is ^...$ under the gm flags, line by line
EachLine(rule, s) ==
    LET lines == SplitLines(s)
    IN  JoinLines([k \in DOMAIN lines |-> OnLine(rule, lines[k])])

Headers(html) == EachLine("h3", EachLine("h4", html))

\* the markup before the final paragraph wrap
Transformed(text) ==
    LET escaped == Escape(text)
        inline == Italic(Bold(Headers(escaped)), 1)
        bullets == WrapLists(EachLine("bullet", inline))
        blocks == EachLine("hr", EachLine("numbered", bullets))
    IN  ReplaceChar(ParagraphBreaks(blocks), NL, BrTag)

\* fault variant: every result is wrapped
FinalWrap_Always(html) == <<POpen>> \o html \o <<PClose>>

\* the final step
FinalWrap(html) ==
    IF /\ ~StartsWith(html, <<"<", "h">>)
       /\ ~StartsWith(html, <<"<", "u", "l">>)
       /\ ~StartsWith(html, <<"<", "o", "l">>)
    THEN <<POpen>> \o html \o <<PClose>>
    ELSE html

parseMarkdown(text) ==
    IF text = <<>> THEN <<>> ELSE FinalWrap(Transformed(text))

\* bubble.innerHTML as addMessage sets it
InnerHTML(element) ==
    IF element.className = "widget-message user"
    THEN ReplaceChar(Escape(element.content), NL, BrTag)
    ELSE parseMarkdown(element.content)

----------------------------------------------------------------------------
(* The rendering of every reply text: the step that reads the body of the
   chat response, taken from the state where the first request of a page
   view without hand-off awaits it *)

MaxTextLen == 3

Alphabet == {"<", "*", "#", "-", " ", NL, "a"}

\* texts that need more characters than MaxTextLen, or others
Samples ==
    { <<"<", "s", "c", "r", "i", "p", "t", ">">>,
      <<"a", " ", "&", " ", "b", " ", ">", " ", "c">>,
      <<"#", "#", "#", " ", "T">>,
      <<"#", "#", " ", "T", NL, "a">>,
      <<"#", "#", "#", "#", " ", "T">>,
      <<"*", "*", "b", "*", "*">>,
      <<"*", "*", "b", "*", "*", " ", "*", "i", "*">>,
      <<"*", "*", "*", "a", "*", "*", "*">>,
      <<"a", "*", "*", NL, "*", "*">>,
      <<"-", " ", "a", NL, "-", " ", "b", NL, "c">>,
      <<BulletChar, " ", "a">>,
      <<"-", " ", "a", NL, "1", ".", " ", "b">>,
      <<"1", ".", " ", "a">>,
      <<"1", "2", ".", " ", "a", NL, "2", ".", " ", "b">>,
      <<"1", ".", "a">>,
      <<"-", "-", "-">>,
      <<"-", "-", "-", "-", NL, "a">>,
      <<"a", NL, "-", "-", "-">>,
      <<"-", "-", "-", " ">>,
      <<"a", NL, NL, "b", NL, "c">>,
      <<NL, NL, NL>>,
      <<"#", "#", " ", "*", "*", "b", "*", "*">>,
      <<"-", " ", "<", "b", ">">> }

MarkdownTexts ==
    Samples
    \cup UNION {[1..n -> Alphabet] : n \in 1..MaxTextLen}

MarkdownInit ==
    /\ locationHash = <<Route>>
    /\ localStorage \in SessionIds
    /\ sessionId = localStorage
    /\ isWaitingForResponse = TRUE
    /\ auditContext = nullObject
    /\ nuruInput = <<>>
    /\ chatMessages =
           showTyping(addMessage(addMessage(<<>>, FallbackGreeting, FALSE),
                                 <<"o", "k">>, TRUE))
    /\ loadPc = "done"
    /\ probes = <<>>
    /\ posts = << [url |-> BACKEND_URL,
                   body |-> RequestBody(<<"o", "k">>, localStorage,
                                        nullObject)] >>
    /\ calls = <<"json">>
    /\ returned = {localStorage}
    /\ reloads = 0
    /\ lastTask = "other"

MarkdownNext ==
    \E text \in MarkdownTexts : ChatJsonSettle(1, [response |-> text])

MarkdownSpec == MarkdownInit /\ [][MarkdownNext]_vars

----------------------------------------------------------------------------
(* The greeting on every shape of hand-off record: the last probe step of
   the startup handler, taken from the state where the Tool 5 response is
   being read *)

\* scores on each side of the two thresholds of the readiness branch
ReadinessScores == {40, 59, 60, 65, 74, 75, 80}

RoiShapes ==
    {[RoiContext EXCEPT !.risk_level = r] : r \in {"Low", "Medium", "High"}}
ReadinessShapes ==
    {[ReadinessContext EXCEPT !.overall_score = n] : n \in ReadinessScores}
AuditShapes ==
    {[AuditContext EXCEPT !.top_waste_zones = z] :
        z \in {<<>>, <<[name |-> "Email"]>>}}

\* what a session endpoint may serve: null, an object with none of the
\* three fields, and objects with the fields of one, two or three tools
GreetingContexts ==
    {nullObject, OtherObject}
    \cup RoiShapes \cup ReadinessShapes \cup AuditShapes
    \cup {a @@ b : a \in RoiShapes, b \in ReadinessShapes}
    \cup {a @@ b : a \in RoiShapes, b \in AuditShapes}
    \cup {a @@ b : a \in ReadinessShapes, b \in AuditShapes}
    \cup {a @@ b @@ c : a \in RoiShapes, b \in ReadinessShapes,
                        c \in AuditShapes}

GreetingInit ==
    /\ locationHash \in {h \in Hashes : ~NoAuditSession(h)}
    /\ localStorage \in SessionIds
    /\ sessionId = localStorage
    /\ isWaitingForResponse = FALSE
    /\ auditContext = nullObject
    /\ nuruInput = <<>>
    /\ chatMessages = <<>>
    /\ loadPc = "json"
    /\ probes = <<NewProbe(1)>>
    /\ posts = <<>>
    /\ calls = <<>>
    /\ returned = {localStorage}
    /\ reloads = 0
    /\ lastTask = "other"

GreetingNext ==
    \E context \in GreetingContexts, patternCount \in PatternCounts :
        ProbeJsonSettle(context, patternCount)

GreetingSpec == GreetingInit /\ [][GreetingNext]_vars

----------------------------------------------------------------------------
(* Properties *)

IsPrefix(s, t) == Len(s) <= Len(t) /\ SubSeq(t, 1, Len(s)) = s

\* the sendNuruMessage invocations whose POST has not settled
Outstanding == {i \in DOMAIN calls : calls[i] # "done"}

\* a step is a call of sendNuruMessage: the button, or Enter without shift
SendStep ==
    \/ \E fresh \in SessionIds : Click(fresh)
    \/ \E fresh \in SessionIds : handleNuruKeyPress("Enter", FALSE, fresh)

\* C1: in every reachable state at most one POST to /api/chat is outstanding.
C1_AtMostOneOutstanding == Cardinality(Outstanding) <= 1

\* a second request is outstanding after the first one has settled
C1_Witness ==
    /\ Len(calls) = 2
    /\ calls[1] = "done"
    /\ Cardinality(Outstanding) = 1

\* C2: the message log is append-only: every step leaves the messages of the
\* container (its children other than the typing indicator) as a prefix of
\* the messages after the step.
C2_LogAppendOnly ==
    [][IsPrefix(MessagesOf(chatMessages), MessagesOf(chatMessages'))]_vars

\* C3: a call of sendNuruMessage while a request is pending changes neither
\* the container (log and typing indicator), nor the input field, nor the
\* pending flag, and issues no request.
C3_PendingSendIsNoOp ==
    [][(isWaitingForResponse /\ SendStep)
          => UNCHANGED <<chatMessages, nuruInput, isWaitingForResponse,
                         posts, calls>>]_vars

\* sendNuruMessage was called with a message typed while a request was
\* pending (a call that sends leaves the input empty)
C3_Witness ==
    /\ isWaitingForResponse
    /\ lastTask = "sendNuruMessage"
    /\ Trim(nuruInput) # <<>>
    /\ Len(posts) = 1

\* a step settles invocation i of sendNuruMessage: its fetch rejects, or
\* response.json() rejects or resolves with one of the bodies
SettleStep(i) ==
    \/ ChatFetchSettle(i, "rejected")
    \/ \E body \in ChatBodies \cup {Unparseable} : ChatJsonSettle(i, body)

\* C4: every step that settles a pending chat request (reply body, error
\* body, body with neither field, unparseable body, transport failure)
\* leaves the pending flag false; and, every network call settling, a set
\* flag is eventually cleared.
C4_FlagClearedOnEveryExit ==
    /\ [][\A i \in DOMAIN calls :
              SettleStep(i) => ~isWaitingForResponse' /\ calls'[i] = "done"]_vars
    /\ (isWaitingForResponse ~> ~isWaitingForResponse)

\* a request has settled through the catch block and the flag is clear
C4_Witness ==
    /\ calls # <<>>
    /\ calls[Len(calls)] = "done"
    /\ chatMessages # <<>>
    /\ chatMessages[Len(chatMessages)] = AiMessage(ConnectApology)
    /\ ~isWaitingForResponse

\* C5: a chat request issued after the startup handler has resolved the
\* context carries that context as audit_context when it is not null and
\* has no audit_context field when it is null; the resolved context does
\* not change afterwards; and with a null resolved context no request of
\* the page view has the field.
C5_ContextAttached ==
    /\ [][loadPc = "done" =>
             /\ auditContext' = auditContext
             /\ Len(posts') > Len(posts) =>
                    LET body == posts'[Len(posts')].body
                    IN  IF auditContext # nullObject
                        THEN /\ "audit_context" \in DOMAIN body
                             /\ body.audit_context = auditContext
                        ELSE "audit_context" \notin DOMAIN body]_vars
    /\ [](loadPc = "done" /\ auditContext = nullObject =>
             \A k \in DOMAIN posts :
                 "audit_context" \notin DOMAIN posts[k].body)

\* a request issued after a context was resolved carries it
C5_Witness ==
    /\ loadPc = "done"
    /\ auditContext \in Contexts
    /\ posts # <<>>
    /\ "audit_context" \in DOMAIN posts[Len(posts)].body
    /\ posts[Len(posts)].body.audit_context = auditContext

\* the tools in priority order: ROI (Tool 5), Readiness (Tool 4), Audit
\* (Tool 3)
Priority == <<"TOOL5_API", "TOOL4_API", "TOOL3_API">>

ProbedTools(log) == [k \in DOMAIN log |-> log[k].tool]

\* C6 as stated: the probes go out in priority order, and once a probe has
\* returned a success status (the handler awaits its body) no further probe
\* is issued, whatever the body.
C6_NoProbeAfterSuccessStatus ==
    [][/\ IsPrefix(ProbedTools(probes'), Priority)
       /\ loadPc = "json" => probes' = probes]_vars

\* C6 as amended: the probes go out one at a time in priority order; a
\* probe that returns a success status and a body that parses supplies the
\* resolved context and ends the search; a success status with a body that
\* does not parse counts as a miss, and the next tool is probed (or the
\* context is null after the last); nothing is probed once startup is done.
C6_FirstParsedSuccessWins ==
    [][/\ IsPrefix(ProbedTools(probes'), Priority)
       /\ probes' # probes =>
              /\ loadPc \in {"notStarted", "fetch", "json"}
              /\ loadPc' = "fetch"
              /\ Len(probes') = Len(probes) + 1
       /\ \A body \in Contexts, n \in PatternCounts :
              ProbeJsonSettle(body, n) =>
                  /\ probes' = probes
                  /\ loadPc' = "done"
                  /\ auditContext' = body
       /\ \A n \in PatternCounts :
              ProbeJsonSettle(Unparseable, n) =>
                  IF Len(probes) < Len(Priority)
                  THEN /\ Len(probes') = Len(probes) + 1
                       /\ loadPc' = "fetch"
                  ELSE /\ loadPc' = "done"
                       /\ auditContext' = nullObject]_vars

\* only the Readiness probe succeeded: its body is the context and the Audit
\* endpoint was not called
C6_Witness ==
    /\ loadPc = "done"
    /\ ProbedTools(probes) = <<"TOOL5_API", "TOOL4_API">>
    /\ auditContext = ReadinessContext

\* C7: a probe whose fetch rejects or returns a status that is not a
\* success makes the handler probe the next tool, or resolve to null after
\* the third; the handler never throws; and, every probe settling, startup
\* completes.
C7_ProbeFailureNeverFatal ==
    /\ [][\A status \in {"failed", "notOk"}, n \in PatternCounts :
              ProbeFetchSettle(status, n) =>
                  IF Len(probes) < Len(Priority)
                  THEN /\ probes' =
                              Append(probes,
                                     [tool |-> Priority[Len(probes) + 1],
                                      id |-> probes[1].id])
                       /\ loadPc' = "fetch"
                  ELSE /\ probes' = probes
                       /\ loadPc' = "done"
                       /\ auditContext' = nullObject]_vars
    /\ [](loadPc # "threw")
    /\ (loadPc \in {"fetch", "json"} ~> loadPc = "done")

\* the third probe missed and the context is null
C7_Witness ==
    /\ Len(probes) = 3
    /\ loadPc = "done"
    /\ auditContext = nullObject

\* the fragment has no session key in any of its segments
NoSessionParameter(hash) ==
    \A k \in DOMAIN hash : \A j \in DOMAIN hash[k] : hash[k][j][1] # "session"

\* C8: with no session parameter in the fragment no session endpoint is
\* ever called and the startup handler resolves the context to null at once.
C8_NoParameterNoProbe ==
    NoSessionParameter(locationHash) =>
        /\ probes = <<>>
        /\ loadPc \in {"notStarted", "done"}
        /\ auditContext = nullObject

\* startup has completed on a fragment without the parameter
C8_Witness ==
    /\ NoSessionParameter(locationHash)
    /\ loadPc = "done"
    /\ chatMessages # <<>>

\* C9: every call of getSessionId, in any page view over the same storage,
\* returns the same string, the one in the storage entry; a storage entry
\* that exists is never replaced.
C9_SessionIdStable ==
    /\ [](Cardinality(returned) <= 1 /\ returned \subseteq {localStorage})
    /\ [](sessionId # null => sessionId = localStorage)
    /\ [][localStorage # null => localStorage' = localStorage]_vars

\* getSessionId has been called in a second page view
C9_Witness ==
    /\ reloads = 1
    /\ sessionId # null
    /\ posts # <<>>

\* C10 as stated: a body with a (non-empty) error field makes the settling
\* step append
\* exactly one assistant message, the fixed apology, and leave no typing
\* indicator.
C10_ErrorFieldApology ==
    [][\A i \in DOMAIN calls, body \in ChatBodies :
           (/\ "error" \in DOMAIN body /\ body.error # <<>>
            /\ ChatJsonSettle(i, body)) =>
               /\ MessagesOf(chatMessages') =
                      Append(MessagesOf(chatMessages), AiMessage(ErrorApology))
               /\ TypingCount(chatMessages') = 0]_vars

\* C10 as amended: a body with a non-empty error field and no non-empty
\* response field makes the settling step append exactly one assistant
\* message, the fixed apology, and leave no typing indicator.
C10_ErrorOnlyApology ==
    [][\A i \in DOMAIN calls, body \in ChatBodies :
           (/\ "error" \in DOMAIN body /\ body.error # <<>>
            /\ ~("response" \in DOMAIN body /\ body.response # <<>>)
            /\ ChatJsonSettle(i, body)) =>
               /\ MessagesOf(chatMessages') =
                      Append(MessagesOf(chatMessages), AiMessage(ErrorApology))
               /\ TypingCount(chatMessages') = 0]_vars

\* an error body has been answered with the apology
C10_Witness ==
    /\ calls # <<>>
    /\ calls[Len(calls)] = "done"
    /\ ~isWaitingForResponse
    /\ chatMessages # <<>>
    /\ chatMessages[Len(chatMessages)] = AiMessage(ErrorApology)
    /\ TypingCount(chatMessages) = 0

\* a step settles invocation i through a transport failure: fetch rejects
\* (no response), or response.json() rejects (the body cannot be parsed)
TransportFailure(i) ==
    \/ ChatFetchSettle(i, "rejected")
    \/ ChatJsonSettle(i, Unparseable)

C12_NoDanglingTyping ==
    (~isWaitingForResponse \/ Outstanding = {})
        => TypingCount(chatMessages) = 0

\* a request showed the indicator and has settled; nothing is pending and
\* the indicator is gone
C12_Witness ==
    /\ posts # <<>>
    /\ Outstanding = {}
    /\ ~isWaitingForResponse
    /\ \E k \in DOMAIN chatMessages : chatMessages[k] = UserMessage(<<"o", "k">>)
    /\ TypingCount(chatMessages) = 0

\* the input field holds nothing but white space
Blank(s) == \A k \in DOMAIN s : s[k] = " "

\* C16: a call of sendNuruMessage with an empty or whitespace-only input
\* while nothing is pending appends no user message, shows no typing
\* indicator, issues no request and leaves the pending flag false.
C16_BlankSendIsNoOp ==
    [][(~isWaitingForResponse /\ Blank(nuruInput) /\ SendStep)
          => /\ UNCHANGED <<chatMessages, posts, calls>>
             /\ ~isWaitingForResponse']_vars

\* sendNuruMessage was called on a whitespace-only input with nothing
\* pending (a call that sends leaves the input empty and the flag set)
C16_Witness ==
    /\ lastTask = "sendNuruMessage"
    /\ nuruInput = <<" ">>
    /\ ~isWaitingForResponse
    /\ posts = <<>>
    /\ TypingCount(chatMessages) = 0

\* C17: in every reachable state where a chat request is pending the
\* container holds exactly one typing indicator, whatever the interleaving
\* with the startup handler.
C17_OneTypingWhilePending ==
    isWaitingForResponse => TypingCount(chatMessages) = 1

\* C18 as stated: a settling step appends at most one message, an assistant
\* message; it appends none exactly when the body parsed and has neither a
\* non-empty response nor a non-empty error; a body with both gets its
\* reply and no apology.
C18_NoneExactlyWhenNeitherField ==
    [][\A i \in Outstanding :
         LET log == MessagesOf(chatMessages)
             after == MessagesOf(chatMessages')
         IN  calls'[i] = "done" =>
             /\ SettleStep(i) =>
                    \/ after = log
                    \/ /\ Len(after) = Len(log) + 1
                       /\ IsPrefix(log, after)
                       /\ after[Len(after)].className = "widget-message ai"
             /\ ChatFetchSettle(i, "rejected") => after # log
             /\ \A body \in ChatBodies \cup {Unparseable} :
                    ChatJsonSettle(i, body) =>
                        /\ after = log <=>
                               /\ body # Unparseable
                               /\ ~Truthy(body, "response")
                               /\ ~Truthy(body, "error")
                        /\ (Truthy(body, "response") /\ Truthy(body, "error"))
                               => after = Append(log, AiMessage(body.response))
        ]_vars

\* C18 as amended: the same, with "appends none" exactly when the body
\* parsed to a value other than null that has neither a non-empty response
\* nor a non-empty error; a body that parsed to null is answered like a
\* failure.
C18_NoneExactlyWhenNeitherFieldOfNonNull ==
    [][\A i \in Outstanding :
         LET log == MessagesOf(chatMessages)
             after == MessagesOf(chatMessages')
         IN  calls'[i] = "done" =>
             /\ SettleStep(i) =>
                    \/ after = log
                    \/ /\ Len(after) = Len(log) + 1
                       /\ IsPrefix(log, after)
                       /\ after[Len(after)].className = "widget-message ai"
             /\ ChatFetchSettle(i, "rejected") => after # log
             /\ \A body \in ChatBodies \cup {Unparseable} :
                    ChatJsonSettle(i, body) =>
                        /\ after = log <=>
                               /\ body # Unparseable
                               /\ body # nullObject
                               /\ ~Truthy(body, "response")
                               /\ ~Truthy(body, "error")
                        /\ (Truthy(body, "response") /\ Truthy(body, "error"))
                               => after = Append(log, AiMessage(body.response))
        ]_vars

\* a request has settled and nothing followed the user's message
C18_Witness ==
    /\ calls # <<>>
    /\ Outstanding = {}
    /\ ~isWaitingForResponse
    /\ chatMessages # <<>>
    /\ chatMessages[Len(chatMessages)] = UserMessage(<<"o", "k">>)

\* C19: every chat request of the page view carries the identifier held in
\* local storage as its session_id (so all carry the same one); a request
\* issued while the startup resolution is in progress carries no
\* audit_context, and no later step changes a request that was issued.
C19_RequestIdentityAndContext ==
    /\ [](\A k \in DOMAIN posts : posts[k].body.session_id = localStorage)
    /\ [][/\ IsPrefix(posts, posts')
          /\ (Len(posts') > Len(posts) /\ loadPc \in {"fetch", "json"})
                 => "audit_context" \notin DOMAIN posts'[Len(posts')].body
         ]_vars

\* one request was issued while a probe was awaited, without audit_context,
\* and after the resolution succeeded a second one went out with it, under
\* the same session_id
C19_Witness ==
    /\ Len(posts) = 2
    /\ loadPc = "done"
    /\ auditContext # nullObject
    /\ Len(probes) >= 1
    /\ "audit_context" \notin DOMAIN posts[1].body
    /\ "audit_context" \in DOMAIN posts[2].body
    /\ posts[1].body.session_id = posts[2].body.session_id

\* the greeting shown: the text of the only child of the container
Greeting == chatMessages[1].content

GreatShape ==
    "You're in great shape! Let's talk about which automation to build first."
SolidFoundations ==
    "You have solid foundations. Want to address the gaps before we start building?"
StrengthenFoundations ==
    "Let's work on strengthening your foundations. I can show you the fastest path forward."

\* the closing line for a readiness score, by the tiers of the claim
Tier(score) ==
    IF score >= 75 THEN GreatShape
    ELSE IF score >= 60 /\ score <= 74 THEN SolidFoundations
    ELSE StrengthenFoundations

\* C13: the greeting is chosen by field presence in the order annual_savings,
\* overall_score, waste_score, fallback (the fallback also for null), so a
\* context with fields of several tools gets the earliest branch; the
\* readiness greeting closes by tier: score >= 75, 60 to 74, below 60, with
\* 80, 65 and 40 in the three tiers in that order.
C13_GreetingDispatchOrder ==
    /\ Tier(80) = GreatShape
    /\ Tier(65) = SolidFoundations
    /\ Tier(40) = StrengthenFoundations
    /\ (loadPc = "done" /\ Len(chatMessages) = 1) =>
           LET has(f) == auditContext # nullObject /\ f \in DOMAIN auditContext
           IN  IF has("annual_savings")
               THEN Greeting[1] = "I see you just calculated ROI for "
               ELSE IF has("overall_score")
               THEN /\ Greeting[1] = "I see you scored "
                    /\ Greeting[Len(Greeting)] = Tier(auditContext.overall_score)
               ELSE IF has("waste_score")
               THEN Greeting[1] =
                        "I see you just completed an intelligence audit for "
               ELSE Greeting = FallbackGreeting

\* a record with the fields of the readiness scanner and of the auditor,
\* scored 65, was greeted by the readiness branch in its middle tier
C13_Witness ==
    /\ loadPc = "done"
    /\ auditContext # nullObject
    /\ {"overall_score", "waste_score"} \subseteq DOMAIN auditContext
    /\ "annual_savings" \notin DOMAIN auditContext
    /\ auditContext.overall_score = 65
    /\ Len(chatMessages) = 1
    /\ Greeting[1] = "I see you scored "
    /\ Greeting[Len(Greeting)] = SolidFoundations

\* the reply that was rendered: the last child of the container once the
\* request has settled
Reply == chatMessages[Len(chatMessages)]

Count(s, c) == Cardinality({k \in DOMAIN s : s[k] = c})

ScriptTag == <<"<", "s", "c", "r", "i", "p", "t", ">">>

\* C14: the markup of a reply holds no '<', '>' or '&' character of its own:
\* every '&', '<' and '>' of the text is there as its entity, one for one,
\* and the only other tokens with '<' or '>' are the tags the renderer
\* writes; the text <script> is rendered as &lt;script&gt;.
C14_EscapedFirst ==
    calls = <<"done">> =>
        LET text == Reply.content
            html == InnerHTML(Reply)
        IN  /\ \A k \in DOMAIN html : html[k] \notin {"<", ">", "&"}
            /\ Count(html, LtEntity) = Count(text, "<")
            /\ Count(html, GtEntity) = Count(text, ">")
            /\ Count(html, AmpEntity) = Count(text, "&")
            /\ text = ScriptTag =>
                   html = <<POpen, LtEntity, "s", "c", "r", "i", "p", "t",
                            GtEntity, PClose>>

\* the reply <script> has been rendered
C14_Witness ==
    /\ calls = <<"done">>
    /\ Reply.content = ScriptTag
    /\ InnerHTML(Reply) = <<POpen, LtEntity, "s", "c", "r", "i", "p", "t",
                             GtEntity, PClose>>

\* C15 as stated: the result is wrapped in a paragraph exactly when the
\* transformed markup does not start with a heading or a list element; a
\* result that starts with any other element, a divider or a bare list item
\* among them, is wrapped.
C15_WrappedUnlessHeadingOrList ==
    calls = <<"done">> =>
        LET html == Transformed(Reply.content)
        IN  InnerHTML(Reply) =
                IF Head(html) \in {H4Open, H3Open, UlOpen}
                THEN html
                ELSE <<POpen>> \o html \o <<PClose>>

\* C15 as amended: the result is wrapped in a paragraph exactly when the
\* transformed markup starts with neither a heading, nor a divider, nor a
\* bulleted list; a result that starts with any other element, a bare list
\* item of a numbered list among them, is wrapped.
C15_WrappedUnlessHeadingDividerOrList ==
    calls = <<"done">> =>
        LET html == Transformed(Reply.content)
        IN  InnerHTML(Reply) =
                IF Head(html) \in {H4Open, H3Open, HrTag, UlOpen}
                THEN html
                ELSE <<POpen>> \o html \o <<PClose>>

\* the reply --- has been rendered as a divider outside any paragraph
C15_Witness ==
    /\ calls = <<"done">>
    /\ Reply.content = <<"-", "-", "-">>
    /\ InnerHTML(Reply) = <<HrTag>>

====
